---- MODULE Spec2Model ----
(***************************************************************************)
(* Model of the bank_app_core service layer (src/handler.py) on top of the *)
(* relational schema declared in src/orm.py, and of the HTTP adapter in    *)
(* front of it (src/api.py).                                               *)
(*                                                                         *)
(* The committed store is the three tables users, accounts, transactions.  *)
(* Every handler method runs inside get_session(): the body works on a     *)
(* private copy of the store (the open database transaction), and the      *)
(* context manager either commits that copy or rolls it back.              *)
(*                                                                         *)
(* The specifications share the state:                                     *)
(*   Spec          user and account creation, one call at a time, from the *)
(*                 empty store;                                            *)
(*   TransferSpec  create_transaction, one call at a time, from any store  *)
(*                 of MaxAccounts accounts with balances 0..MaxAmount;     *)
(*   ConcSpec      two create_transaction calls running concurrently, each *)
(*                 in its own session, interleaved at the statements they  *)
(*                 send to the database (READ COMMITTED, the isolation     *)
(*                 level create_engine leaves at the server's default);    *)
(*   LedgerSpec    all seven store-changing methods, one call at a time,   *)
(*                 MaxCalls calls from a store with users and accounts;    *)
(*   EmailSpec     update_user calls running concurrently with each other  *)
(*                 and with create_user;                                   *)
(*   UowSpec       get_session statement by statement around each method;  *)
(*   ApiSpec       the endpoints of src/api.py: token gate, request        *)
(*                 schema, handler call, status of the answer;             *)
(*   TokenSpec     clients that log in and present their token while the   *)
(*                 clock advances in steps shorter than a second.          *)
(*                                                                         *)
(* Amounts are modelled as integers: the arithmetic of the handler is      *)
(* exact here, rounding of the Float column is outside the model.          *)
(* Generated primary keys (uuid4, nanoid) are modelled as fresh values     *)
(* taken from a counter; the generated account number is a free choice in  *)
(* a small set, so that the unique constraint on it can be violated.       *)
(***************************************************************************)
EXTENDS Integers, FiniteSets

\* ---------------------------------------------------------------- bounds
MaxUsers == 2
MaxAccounts == 3
MaxAmount == 1
MaxTx == 1
\* Calls explored from the first state of LedgerSpec and of ApiSpec.
MaxCalls == 2
\* Steps of the clock in one second.
TicksPerSecond == 2
\* Seconds a token issued by login lives (expires_minutes=15, scaled down).
Lifetime == 1

\* The concurrently running calls, and the clients of TokenSpec.
Sessions == {"s1", "s2"}
\* Identifiers a caller may pass: the existing ones and one that never exists.
UserIdInputs == 1..(MaxUsers + 1)
AccountIdInputs == 1..(MaxAccounts + 1)
Emails == 1..MaxUsers
Passwords == {"AAa123456!#"}
AccountNumbers == 1..MaxAccounts
\* Amounts a caller may pass to the handler: negative, zero and positive.
AmountInputs == (-1)..MaxAmount

\* ---------------------------------------------------------------- state
VARIABLES
    users,          \* committed rows of table users
    accounts,       \* committed rows of table accounts
    transactions,   \* committed rows of table transactions
    seq,            \* number of primary keys generated so far, per table
    last,           \* the handler call that has just completed and not yet been answered:
                    \* its arguments, its result and the store before it
    sess,           \* the concurrently running calls; in TokenSpec the clients and their tokens
    calls,          \* number of calls made so far (counted in LedgerSpec and ApiSpec)
    clock,          \* the time, in ticks of 1/TicksPerSecond seconds
    http            \* the request the HTTP adapter has just answered

vars == <<users, accounts, transactions, seq, last, sess, calls, clock, http>>

\* What the specifications of the handler alone leave as it is.
adapter == <<clock, http>>

Store == [users |-> users, accounts |-> accounts, transactions |-> transactions]

\* ---------------------------------------------------------------- exceptions
NoExc == [kind |-> "none", id |-> 0]
Exc(k, i) == [kind |-> k, id |-> i]
IntegrityError == Exc("IntegrityError", 0)
OperationalError == Exc("OperationalError", 0)

\* pwd_context.hash: a one-way tagged value.
Hash(password) == <<"bcrypt", password>>

\* ---------------------------------------------------------------- schema
\* Row lookups (.filter_by(...).one_or_none()); the empty set stands for None.
UserById(st, uid) == {u \in st.users : u.user_id = uid}
AccountById(st, aid) == {a \in st.accounts : a.account_id = aid}

\* Primary keys present in a store.
UserKeys(st) == {u.user_id : u \in st.users}
AccountKeys(st) == {a.account_id : a \in st.accounts}
TransactionKeys(st) == {t.transaction_id : t \in st.transactions}

\* The users table without the unique constraint on email.
UsersEmailNotUnique(rows) == TRUE

\* unique=True on users.email
UsersEmailUnique(rows) ==
    \A u1, u2 \in rows : u1.email = u2.email => u1 = u2

\* A table accounts without the unique constraint on account_number.
AccountsNumberNotUnique(rows) == TRUE

\* unique=True on accounts.account_number
AccountsNumberUnique(rows) ==
    \A a1, a2 \in rows : a1.account_number = a2.account_number => a1 = a2

\* The transactions table without its check constraint.
TransactionsAmountCheckMissing(row) == TRUE

\* CheckConstraint("amount > 0") on transactions
TransactionsAmountCheck(row) == row.amount > 0

\* ForeignKey("accounts.account_id") on both account columns of transactions
TransactionsAccountFk(st, row) ==
    /\ AccountById(st, row.account_id_from) # {}
    /\ AccountById(st, row.account_id_to) # {}

\* ---------------------------------------------------------------- get_session
\* A context manager without the except clauses that rename an exception.
TranslateNothing(exc) == exc

\* except IntegrityError -> DuplictedError; except NoResultFound -> NotFoundError;
\* except Exception -> re-raised unchanged.
Translate(exc) ==
    IF exc.kind = "IntegrityError" THEN Exc("DuplictedError", 0)
    ELSE IF exc.kind = "NoResultFound" THEN Exc("NotFoundError", 0)
    ELSE exc

\* A context manager that commits what the body left behind also when the
\* body, or the commit, has raised.
GetSessionCommitsOnError(pre, body, commitFails) ==
    [store |-> body.store,
     raised |-> IF body.exc.kind = "none"
                THEN (IF commitFails THEN Translate(OperationalError) ELSE NoExc)
                ELSE Translate(body.exc)]

\* The context manager: `pre` is the committed store, `body` the outcome of the
\* with-block (its working copy and the exception it raised, if any),
\* `commitFails` whether the store rejects the commit.
GetSession(pre, body, commitFails) ==
    IF body.exc.kind = "none"
    THEN IF commitFails
         THEN [store |-> pre, raised |-> Translate(OperationalError)]
         ELSE [store |-> body.store, raised |-> NoExc]
    ELSE [store |-> pre, raised |-> Translate(body.exc)]

\* Where the store may fail for a reason other than a constraint: at the
\* last flush of the body, or at the commit.
Faults == {"none", "flush", "commit"}

Raise(st, exc) == [store |-> st, exc |-> exc]
Return(st) == [store |-> st, exc |-> NoExc]

\* ---------------------------------------------------------------- create_user
CreateUserBody(st, email, password, number, fault) ==
    LET user == [user_id |-> seq.users + 1, email |-> email,
                 password |-> Hash(password)]
        st1 == [st EXCEPT !.users = @ \cup {user}]
        account == [account_id |-> seq.accounts + 1, account_number |-> number,
                    user_id |-> user.user_id, amount |-> 0]
        st2 == [st1 EXCEPT !.accounts = @ \cup {account}]
    IN  IF ~UsersEmailUnique(st1.users) THEN Raise(st, IntegrityError)
        ELSE IF ~AccountsNumberUnique(st2.accounts) THEN Raise(st1, IntegrityError)
        ELSE IF fault = "flush" THEN Raise(st1, OperationalError)
        ELSE Return(st2)

\* ---------------------------------------------------------------- create_account
CreateAccountBody(st, user_id, number, fault) ==
    LET account == [account_id |-> seq.accounts + 1, account_number |-> number,
                    user_id |-> user_id, amount |-> 0]
        st1 == [st EXCEPT !.accounts = @ \cup {account}]
    IN  IF UserById(st, user_id) = {} THEN Raise(st, Exc("NotFoundError", user_id))
        ELSE IF ~AccountsNumberUnique(st1.accounts) THEN Raise(st, IntegrityError)
        ELSE IF fault = "flush" THEN Raise(st, OperationalError)
        ELSE Return(st1)

\* ---------------------------------------------------------------- create_transaction
SetAmount(rows, aid, value) ==
    {IF a.account_id = aid THEN [a EXCEPT !.amount = value] ELSE a : a \in rows}

AmountOf(rows, aid) == (CHOOSE a \in rows : a.account_id = aid).amount

\* A lookup that names the source account whichever account is missing.
LookupErrorNamesSource(rows, from, to) ==
    IF \A a \in rows : a.account_id # from THEN Exc("NotFoundError", from)
    ELSE IF \A a \in rows : a.account_id # to THEN Exc("NotFoundError", from)
    ELSE NoExc

\* The two lookups and `if not acc_from` / `if not acc_to`, on the rows the
\* session has loaded.
LookupError(rows, from, to) ==
    IF \A a \in rows : a.account_id # from THEN Exc("NotFoundError", from)
    ELSE IF \A a \in rows : a.account_id # to THEN Exc("NotFoundError", to)
    ELSE NoExc

\* A funds check that only looks at the sign of the balance.
InsufficientFundsChecksZero(balance, amount) == balance < 0

\* if acc_from.amount < amount
InsufficientFunds(balance, amount) == balance < amount

\* An adjustment that debits the source and forgets the credit.
AdjustBalancesDebitOnly(rows, from, to, amount) ==
    SetAmount(rows, from, AmountOf(rows, from) - amount)

\* acc_from.amount -= amount; acc_to.amount += amount, on the session's objects:
\* with account_from_id = account_to_id both names denote the same object.
AdjustBalances(rows, from, to, amount) ==
    LET debited == SetAmount(rows, from, AmountOf(rows, from) - amount)
    IN  SetAmount(debited, to, AmountOf(debited, to) + amount)

\* Transactions(account_id_from=..., account_id_to=..., amount=...)
TransactionRow(tid, from, to, amount) ==
    [transaction_id |-> tid, account_id_from |-> from, account_id_to |-> to,
     amount |-> amount]

\* session.flush() of the new transactions row: the INSERT is rejected when
\* a constraint of the table does not hold.
InsertRejected(st, row) ==
    ~TransactionsAmountCheck(row) \/ ~TransactionsAccountFk(st, row)

CreateTransactionBody(st, from, to, amount, fault) ==
    IF LookupError(st.accounts, from, to) # NoExc
    THEN Raise(st, LookupError(st.accounts, from, to))
    ELSE IF InsufficientFunds(AmountOf(st.accounts, from), amount)
    THEN Raise(st, Exc("AmountTooSmallError", 0))
    ELSE LET st1 == [st EXCEPT !.accounts = AdjustBalances(@, from, to, amount)]
             row == TransactionRow(seq.transactions + 1, from, to, amount)
             st2 == [st1 EXCEPT !.transactions = @ \cup {row}]
         IN  IF InsertRejected(st1, row) THEN Raise(st1, IntegrityError)
             ELSE IF fault = "flush" THEN Raise(st1, OperationalError)
             ELSE Return(st2)

\* ---------------------------------------------------------------- update_user
\* session.query(Users).filter_by(email=new_email).one_or_none()
UserByEmail(st, email) == {u \in st.users : u.email = email}

\* A pre-check that also turns away the user's own current email.
EmailTakenEvenByMyself(st, user_id, new_email) ==
    UserByEmail(st, new_email) # {}

\* if existing_email and existing_email.user_id != user_id
EmailTaken(st, user_id, new_email) ==
    \E u \in UserByEmail(st, new_email) : u.user_id # user_id

\* user.email = new_email
SetEmail(rows, user_id, new_email) ==
    {IF u.user_id = user_id THEN [u EXCEPT !.email = new_email] ELSE u : u \in rows}

UpdateUserBody(st, user_id, new_email, fault) ==
    LET st1 == [st EXCEPT !.users = SetEmail(@, user_id, new_email)]
    IN  IF UserById(st, user_id) = {} THEN Raise(st, Exc("NotFoundError", user_id))
        ELSE IF EmailTaken(st, user_id, new_email)
        THEN Raise(st, Exc("DuplictedError", 0))
        ELSE IF ~UsersEmailUnique(st1.users) THEN Raise(st, IntegrityError)
        ELSE IF fault = "flush" THEN Raise(st, OperationalError)
        ELSE Return(st1)

\* ---------------------------------------------------------------- update_account
\* session.query(Accounts).filter_by(account_number=number).one_or_none()
AccountByNumber(st, number) == {a \in st.accounts : a.account_number = number}

\* account.amount = new_amount
\* An UPDATE without its WHERE clause.
SetAmountOfAll(rows, number, value) ==
    {[a EXCEPT !.amount = value] : a \in rows}

SetAmountByNumber(rows, number, value) ==
    {IF a.account_number = number THEN [a EXCEPT !.amount = value] ELSE a : a \in rows}

UpdateAccountBody(st, number, new_amount, fault) ==
    IF AccountByNumber(st, number) = {} THEN Raise(st, Exc("NotFoundError", number))
    ELSE IF fault = "flush" THEN Raise(st, OperationalError)
    ELSE Return([st EXCEPT !.accounts = SetAmountByNumber(@, number, new_amount)])

\* ---------------------------------------------------------------- delete_account
\* A deletion that finds no transaction to detach.
ReferringTransactionsNotLoaded(st, aid) == {}

\* The collections account.transactions_from and account.transactions_to:
\* the relationships carry no delete cascade, so the unit of work detaches
\* these rows (UPDATE transactions SET account_id_from/to = NULL) before it
\* deletes the account.
ReferringTransactions(st, aid) ==
    {t \in st.transactions : t.account_id_from = aid \/ t.account_id_to = aid}

\* session.delete(account), flushed by session.commit(): detaching a
\* transaction breaks nullable=False on its account column.
DeleteAccountBody(st, number, fault) ==
    LET found == AccountByNumber(st, number)
    IN  IF found = {} THEN Raise(st, Exc("NotFoundError", number))
        ELSE IF \E a \in found : ReferringTransactions(st, a.account_id) # {}
        THEN Raise(st, IntegrityError)
        ELSE IF fault = "flush" THEN Raise(st, OperationalError)
        ELSE Return([st EXCEPT !.accounts = @ \ found])

\* ---------------------------------------------------------------- delete_user
\* A deletion that finds no account to detach.
OwnedAccountsNotLoaded(st, uid) == {}

\* The collection user.accounts: the relationship carries no delete cascade,
\* so the unit of work detaches these rows (UPDATE accounts SET user_id = NULL)
\* before it deletes the user.
OwnedAccounts(st, uid) == {a \in st.accounts : a.user_id = uid}

\* session.delete(user), flushed by session.commit(): detaching an account
\* breaks nullable=False on accounts.user_id.
DeleteUserBody(st, user_id, fault) ==
    LET found == UserById(st, user_id)
    IN  IF found = {} THEN Raise(st, Exc("NotFoundError", user_id))
        ELSE IF OwnedAccounts(st, user_id) # {} THEN Raise(st, IntegrityError)
        ELSE IF fault = "flush" THEN Raise(st, OperationalError)
        ELSE Return([st EXCEPT !.users = @ \ found])

\* ---------------------------------------------------------------- calls
NewKeys(after, before) == Cardinality(after \ before)

\* A completed call: the committed store becomes the outcome of get_session.
Complete(op, args, fault, out) ==
    /\ last.op = "none"
    /\ users' = out.store.users
    /\ accounts' = out.store.accounts
    /\ transactions' = out.store.transactions
    /\ seq' = [users |-> seq.users + NewKeys(UserKeys(out.store), UserKeys(Store)),
               accounts |-> seq.accounts
                            + NewKeys(AccountKeys(out.store), AccountKeys(Store)),
               transactions |-> seq.transactions
                            + NewKeys(TransactionKeys(out.store), TransactionKeys(Store))]
    /\ last' = [op |-> op, args |-> args, fault |-> fault, raised |-> out.raised,
                pre |-> Store]

EmptyStore == [users |-> {}, accounts |-> {}, transactions |-> {}]
NoCall == [op |-> "none", args |-> <<>>, fault |-> "none", raised |-> NoExc,
           pre |-> EmptyStore]
NoSessions == [p \in Sessions |-> [pc |-> "idle"]]
NoRequest == [endpoint |-> "none"]

Init ==
    /\ users = {}
    /\ accounts = {}
    /\ transactions = {}
    /\ seq = [users |-> 0, accounts |-> 0, transactions |-> 0]
    /\ last = NoCall
    /\ sess = NoSessions
    /\ calls = 0
    /\ clock = 0
    /\ http = NoRequest

CreateUser ==
    /\ last.op = "none"
    /\ seq.users < MaxUsers
    /\ seq.accounts < MaxAccounts
    /\ \E email \in Emails, password \in Passwords, number \in AccountNumbers,
          fault \in Faults :
         Complete("create_user", <<email, password, number>>, fault,
                  GetSession(Store,
                             CreateUserBody(Store, email, password, number, fault),
                             fault = "commit"))
    /\ UNCHANGED sess

CreateAccount ==
    /\ last.op = "none"
    /\ seq.accounts < MaxAccounts
    /\ \E user_id \in UserIdInputs, number \in AccountNumbers, fault \in Faults :
         Complete("create_account", <<user_id, number>>, fault,
                  GetSession(Store,
                             CreateAccountBody(Store, user_id, number, fault),
                             fault = "commit"))
    /\ UNCHANGED sess

\* The endpoint hands the result (or the error) of the call to the client.
Respond ==
    /\ last.op # "none"
    /\ last' = NoCall
    /\ UNCHANGED <<users, accounts, transactions, seq, sess>>

Next ==
    \/ CreateUser /\ UNCHANGED <<calls, adapter>>
    \/ CreateAccount /\ UNCHANGED <<calls, adapter>>
    \/ Respond /\ UNCHANGED <<calls, adapter>>

Spec == Init /\ [][Next]_vars

\* ---------------------------------------------------------------- transfers
\* A store as create_user, create_account and update_account leave it: one
\* user owning MaxAccounts accounts, every balance in 0..MaxAmount.
Owner == [user_id |-> 1, email |-> 1, password |-> Hash("AAa123456!#")]

FundedAccounts(balance) ==
    {[account_id |-> i, account_number |-> i, user_id |-> Owner.user_id,
      amount |-> balance[i]] : i \in 1..MaxAccounts}

FundedInit ==
    /\ users = {Owner}
    /\ \E balance \in [1..MaxAccounts -> 0..MaxAmount] :
         accounts = FundedAccounts(balance)
    /\ transactions = {}
    /\ seq = [users |-> 1, accounts |-> MaxAccounts, transactions |-> 0]
    /\ last = NoCall
    /\ sess = NoSessions
    /\ calls = 0
    /\ clock = 0
    /\ http = NoRequest

CreateTransaction ==
    /\ last.op = "none"
    /\ seq.transactions < MaxTx
    /\ \E from \in AccountIdInputs, to \in AccountIdInputs, amount \in AmountInputs,
          fault \in Faults :
         Complete("create_transaction", <<from, to, amount>>, fault,
                  GetSession(Store,
                             CreateTransactionBody(Store, from, to, amount, fault),
                             fault = "commit"))
    /\ UNCHANGED sess

TransferNext ==
    \/ CreateTransaction /\ UNCHANGED <<calls, adapter>>
    \/ Respond /\ UNCHANGED <<calls, adapter>>

TransferSpec == FundedInit /\ [][TransferNext]_vars

\* ---------------------------------------------------------------- concurrent transfers
\* A session of create_transaction between two of the statements it sends:
\*   idle       not yet called
\*   from_read  acc_from has been queried
\*   to_read    acc_to has been queried
\*   flushed    the UPDATEs and the INSERT are sent, the rows written are locked
\*   done       committed or rolled back, the call has returned or raised
InFlight(p) == sess[p].pc \in {"from_read", "to_read", "flushed"}

\* Account rows another session has written and not yet committed: an UPDATE
\* of such a row waits for that session to end.
LockedByOthers(p) ==
    UNION {{a.account_id : a \in sess[q].writes} :
             q \in {r \in Sessions \ {p} : sess[r].pc = "flushed"}}

\* acc_from = session.query(Accounts).filter_by(account_id=...).one_or_none()
\* The concurrent calls name existing accounts: no session deletes one, and a
\* call that names a missing account ends at the lookup as it does in
\* TransferSpec.
SelectFrom(p) ==
    /\ sess[p].pc = "idle"
    /\ \E from \in AccountKeys(Store), to \in AccountKeys(Store),
          amount \in AmountInputs :
         sess' = [sess EXCEPT ![p] =
                    [pc |-> "from_read", from |-> from, to |-> to, amount |-> amount,
                     loaded |-> AccountById(Store, from), writes |-> {}, row |-> {},
                     raised |-> NoExc, overlapped |-> FALSE]]
    /\ UNCHANGED <<users, accounts, transactions, seq, last>>

\* acc_to = session.query(Accounts).filter_by(account_id=...).one_or_none():
\* an account the session has already loaded keeps the object it has.
SelectTo(p) ==
    /\ sess[p].pc = "from_read"
    /\ sess' = [sess EXCEPT ![p].pc = "to_read",
                            ![p].loaded =
                                IF \E a \in @ : a.account_id = sess[p].to
                                THEN @ ELSE @ \cup AccountById(Store, sess[p].to)]
    /\ UNCHANGED <<users, accounts, transactions, seq, last>>

\* The outcome of the body of the with-block up to and including flush().
SessionBody(p) ==
    LET s == sess[p]
        work == [Store EXCEPT !.accounts = s.loaded]
    IN  CreateTransactionBody(work, s.from, s.to, s.amount, "none")

\* The rest of the body: the checks, the adjustment of the two objects and
\* session.flush(). A body that raises is rolled back by get_session.
Flush(p) ==
    LET s == sess[p]
        body == SessionBody(p)
        dirty == body.store.accounts \ s.loaded
        out == GetSession(Store, body, FALSE)
    IN  /\ s.pc = "to_read"
        /\ {a.account_id : a \in dirty} \cap LockedByOthers(p) = {}
        /\ IF body.exc.kind = "none"
           THEN /\ sess' = [sess EXCEPT ![p].pc = "flushed", ![p].writes = dirty,
                                        ![p].row = body.store.transactions
                                                   \ transactions]
                /\ seq' = [seq EXCEPT !.transactions = @ + 1]
           ELSE /\ sess' = [sess EXCEPT ![p].pc = "done", ![p].raised = out.raised]
                /\ seq' = seq
        /\ UNCHANGED <<users, accounts, transactions, last>>

\* UPDATE accounts SET amount = <the value the session computed> WHERE
\* account_id = <id>, for every object the session changed.
ApplyWrites(rows, writes) ==
    {IF \E w \in writes : w.account_id = a.account_id
     THEN [a EXCEPT !.amount = AmountOf(writes, a.account_id)]
     ELSE a : a \in rows}

\* session.commit(): the writes of the session become the committed state.
Commit(p) ==
    LET s == sess[p]
        body == Return([Store EXCEPT !.accounts = ApplyWrites(@, s.writes),
                                     !.transactions = @ \cup s.row])
        out == GetSession(Store, body, FALSE)
    IN  /\ s.pc = "flushed"
        /\ accounts' = out.store.accounts
        /\ transactions' = out.store.transactions
        /\ sess' = [sess EXCEPT ![p].pc = "done", ![p].raised = out.raised,
                                ![p].overlapped =
                                    \E q \in Sessions \ {p} : InFlight(q)]
        /\ UNCHANGED <<users, seq, last>>

ConcNext ==
    \E p \in Sessions :
        \/ SelectFrom(p) /\ UNCHANGED <<calls, adapter>>
        \/ SelectTo(p) /\ UNCHANGED <<calls, adapter>>
        \/ Flush(p) /\ UNCHANGED <<calls, adapter>>
        \/ Commit(p) /\ UNCHANGED <<calls, adapter>>

ConcSpec == FundedInit /\ [][ConcNext]_vars

\* ---------------------------------------------------------------- ledger
\* Account numbers a caller may pass: the possible ones and one never issued.
AccountNumberInputs == 1..(MaxAccounts + 1)

UpdateUser ==
    /\ last.op = "none"
    /\ \E user_id \in UserIdInputs, new_email \in Emails, fault \in Faults :
         Complete("update_user", <<user_id, new_email>>, fault,
                  GetSession(Store,
                             UpdateUserBody(Store, user_id, new_email, fault),
                             fault = "commit"))
    /\ UNCHANGED sess

UpdateAccount ==
    /\ last.op = "none"
    /\ \E number \in AccountNumberInputs, new_amount \in AmountInputs,
          fault \in Faults :
         Complete("update_account", <<number, new_amount>>, fault,
                  GetSession(Store,
                             UpdateAccountBody(Store, number, new_amount, fault),
                             fault = "commit"))
    /\ UNCHANGED sess

DeleteAccount ==
    /\ last.op = "none"
    /\ \E number \in AccountNumberInputs, fault \in Faults :
         Complete("delete_account", <<number>>, fault,
                  GetSession(Store, DeleteAccountBody(Store, number, fault),
                             fault = "commit"))
    /\ UNCHANGED sess

DeleteUser ==
    /\ last.op = "none"
    /\ \E user_id \in UserIdInputs, fault \in Faults :
         Complete("delete_user", <<user_id>>, fault,
                  GetSession(Store, DeleteUserBody(Store, user_id, fault),
                             fault = "commit"))
    /\ UNCHANGED sess

\* A store as create_user, create_account, update_account and delete_account
\* leave it: all users but one registered, all accounts but one opened, in
\* turn for each user and funded with MaxAmount, and only the first `open` of
\* them not deleted since.
Registered(i) == [user_id |-> i, email |-> i, password |-> Hash("AAa123456!#")]

OpenAccounts(open) ==
    {[account_id |-> i, account_number |-> i,
      user_id |-> ((i - 1) % (MaxUsers - 1)) + 1, amount |-> MaxAmount] :
       i \in 1..open}

Opened ==
    /\ users = {Registered(i) : i \in 1..(MaxUsers - 1)}
    /\ \E open \in 0..(MaxAccounts - 1) : accounts = OpenAccounts(open)
    /\ transactions = {}
    /\ seq = [users |-> MaxUsers - 1, accounts |-> MaxAccounts - 1,
              transactions |-> 0]
    /\ last = NoCall
    /\ sess = NoSessions
    /\ calls = 0
    /\ http = NoRequest

LedgerInit == Opened /\ clock = 0

\* One more call of the handler.
Counted == calls < MaxCalls /\ calls' = calls + 1

LedgerNext ==
    \/ CreateUser /\ Counted /\ UNCHANGED adapter
    \/ CreateAccount /\ Counted /\ UNCHANGED adapter
    \/ CreateTransaction /\ Counted /\ UNCHANGED adapter
    \/ UpdateUser /\ Counted /\ UNCHANGED adapter
    \/ UpdateAccount /\ Counted /\ UNCHANGED adapter
    \/ DeleteAccount /\ Counted /\ UNCHANGED adapter
    \/ DeleteUser /\ Counted /\ UNCHANGED adapter
    \/ Respond /\ UNCHANGED <<calls, adapter>>

LedgerSpec == LedgerInit /\ [][LedgerNext]_vars

\* ---------------------------------------------------------------- concurrent update_user
\* Emails a caller may pass to update_user: those create_user may register
\* and one more.
EmailInputs == 1..(MaxUsers + 1)

\* A session of update_user between two of the statements it sends:
\*   idle        not yet called
\*   user_read   the user has been queried and found
\*   email_read  the owner of new_email has been queried, the pre-check passed
\*   flushed     the UPDATE, if any, is sent; the row written is locked
\*   done        committed or rolled back, the call has returned or raised

\* Rows of users the sessions `ps` have written and not yet committed.
PendingUsers(ps) ==
    UNION {sess[q].writes : q \in {r \in ps : sess[r].pc = "flushed"}}

\* Emails a statement has to wait for: the new and the committed email of
\* every row with an uncommitted UPDATE.
HeldEmails(ps) ==
    {w.email : w \in PendingUsers(ps)}
    \cup {u.email : u \in {v \in users :
                             \E w \in PendingUsers(ps) : w.user_id = v.user_id}}

\* user = session.query(Users).filter_by(user_id=user_id).one_or_none()
\* and `if user is None`.
SelectUser(p) ==
    /\ sess[p].pc = "idle"
    /\ \E user_id \in UserIdInputs, new_email \in EmailInputs :
         LET found == UserById(Store, user_id)
             out == GetSession(Store, Raise(Store, Exc("NotFoundError", user_id)),
                               FALSE)
         IN  sess' = [sess EXCEPT ![p] =
                        [pc |-> IF found = {} THEN "done" ELSE "user_read",
                         user_id |-> user_id, new_email |-> new_email,
                         loaded |-> found, checked |-> FALSE, writes |-> {},
                         raised |-> IF found = {} THEN out.raised ELSE NoExc]]
    /\ UNCHANGED <<users, accounts, transactions, seq, last>>

\* existing_email = session.query(Users).filter_by(email=new_email).one_or_none()
\* and the pre-check, on the rows committed when the query runs.
SelectEmail(p) ==
    LET s == sess[p]
        out == GetSession(Store, Raise(Store, Exc("DuplictedError", 0)), FALSE)
    IN  /\ s.pc = "user_read"
        /\ IF EmailTaken(Store, s.user_id, s.new_email)
           THEN sess' = [sess EXCEPT ![p].pc = "done", ![p].raised = out.raised]
           ELSE sess' = [sess EXCEPT ![p].pc = "email_read", ![p].checked = TRUE]
        /\ UNCHANGED <<users, accounts, transactions, seq, last>>

\* user.email = new_email; session.flush(). No UPDATE is sent when the object
\* already has that email. An UPDATE waits while another session holds the
\* row, or an uncommitted row with the same email; then the unique constraint
\* is checked against the committed rows.
FlushEmail(p) ==
    LET s == sess[p]
        row == [user_id |-> s.user_id, email |-> s.new_email]
        written == SetEmail(users, s.user_id, s.new_email)
        out == GetSession(Store, Raise(Store, IntegrityError), FALSE)
    IN  /\ s.pc = "email_read"
        /\ IF \E u \in s.loaded : u.email = s.new_email
           THEN sess' = [sess EXCEPT ![p].pc = "flushed"]
           ELSE /\ \A w \in PendingUsers(Sessions \ {p}) : w.user_id # s.user_id
                /\ s.new_email \notin HeldEmails(Sessions \ {p})
                /\ IF UsersEmailUnique(written)
                   THEN sess' = [sess EXCEPT ![p].pc = "flushed",
                                             ![p].writes = {row}]
                   ELSE sess' = [sess EXCEPT ![p].pc = "done",
                                             ![p].raised = out.raised]
        /\ UNCHANGED <<users, accounts, transactions, seq, last>>

\* UPDATE users SET email = <new_email> WHERE user_id = <user_id>
ApplyEmails(rows, writes) ==
    {IF \E w \in writes : w.user_id = u.user_id
     THEN [u EXCEPT !.email = (CHOOSE w \in writes : w.user_id = u.user_id).email]
     ELSE u : u \in rows}

\* session.commit() of update_user.
CommitEmail(p) ==
    LET s == sess[p]
        out == GetSession(Store,
                          Return([Store EXCEPT !.users = ApplyEmails(@, s.writes)]),
                          FALSE)
    IN  /\ s.pc = "flushed"
        /\ users' = out.store.users
        /\ sess' = [sess EXCEPT ![p].pc = "done", ![p].raised = out.raised]
        /\ UNCHANGED <<accounts, transactions, seq, last>>

\* create_user next to the running sessions: its INSERT waits, like an
\* UPDATE, for the sessions that hold its email.
RegisterUser ==
    /\ CreateUser
    /\ last'.args[1] \notin HeldEmails(Sessions)

EmailInit ==
    /\ users = {Registered(i) : i \in 1..(MaxUsers - 1)}
    /\ accounts = OpenAccounts(MaxUsers - 1)
    /\ transactions = {}
    /\ seq = [users |-> MaxUsers - 1, accounts |-> MaxUsers - 1, transactions |-> 0]
    /\ last = NoCall
    /\ sess = NoSessions
    /\ calls = 0
    /\ clock = 0
    /\ http = NoRequest

EmailNext ==
    \/ \E p \in Sessions :
         \/ SelectUser(p) /\ UNCHANGED <<calls, adapter>>
         \/ SelectEmail(p) /\ UNCHANGED <<calls, adapter>>
         \/ FlushEmail(p) /\ UNCHANGED <<calls, adapter>>
         \/ CommitEmail(p) /\ UNCHANGED <<calls, adapter>>
    \/ RegisterUser /\ UNCHANGED <<calls, adapter>>
    \/ Respond /\ UNCHANGED <<calls, adapter>>

EmailSpec == EmailInit /\ [][EmailNext]_vars

\* ---------------------------------------------------------------- unit of work
\* The calls of the handler that change the store, with their arguments.
Requests ==
    {[op |-> "create_user", args |-> <<email, password, number>>] :
       email \in Emails, password \in Passwords, number \in AccountNumbers}
    \cup {[op |-> "create_account", args |-> <<user_id, number>>] :
            user_id \in UserIdInputs, number \in AccountNumbers}
    \cup {[op |-> "create_transaction", args |-> <<from, to, amount>>] :
            from \in AccountIdInputs, to \in AccountIdInputs, amount \in AmountInputs}
    \cup {[op |-> "update_user", args |-> <<user_id, new_email>>] :
            user_id \in UserIdInputs, new_email \in Emails}
    \cup {[op |-> "update_account", args |-> <<number, new_amount>>] :
            number \in AccountNumberInputs, new_amount \in AmountInputs}
    \cup {[op |-> "delete_account", args |-> <<number>>] :
            number \in AccountNumberInputs}
    \cup {[op |-> "delete_user", args |-> <<user_id>>] : user_id \in UserIdInputs}

\* Keys left to generate for the rows the call inserts.
KeysLeft(op) ==
    /\ op = "create_user" => seq.users < MaxUsers /\ seq.accounts < MaxAccounts
    /\ op = "create_account" => seq.accounts < MaxAccounts
    /\ op = "create_transaction" => seq.transactions < MaxTx

\* The with-block of the method: what it leaves in the session and the
\* exception it ends with.
WithBlock(op, args, fault) ==
    CASE op = "create_user" -> CreateUserBody(Store, args[1], args[2], args[3], fault)
      [] op = "create_account" -> CreateAccountBody(Store, args[1], args[2], fault)
      [] op = "create_transaction" ->
            CreateTransactionBody(Store, args[1], args[2], args[3], fault)
      [] op = "update_user" -> UpdateUserBody(Store, args[1], args[2], fault)
      [] op = "update_account" -> UpdateAccountBody(Store, args[1], args[2], fault)
      [] op = "delete_account" -> DeleteAccountBody(Store, args[1], fault)
      [] op = "delete_user" -> DeleteUserBody(Store, args[1], fault)

\* The with-blocks of delete_account and delete_user end with session.delete():
\* the statements are sent, and the store rejects them, inside session.commit().
FlushedByCommit(op, exc) ==
    /\ op \in {"delete_account", "delete_user"}
    /\ exc.kind \in {"IntegrityError", "OperationalError"}

\* An exit that rolls back only in the two clauses that name an exception.
ExceptClauseNamedOnly(exc) ==
    [rollback |-> exc.kind \in {"IntegrityError", "NoResultFound"},
     raised |-> Translate(exc)]

\* The three except clauses: each one calls session.rollback() and raises.
ExceptClause(exc) == [rollback |-> TRUE, raised |-> Translate(exc)]

\* A call of the handler between two steps of get_session:
\*   idle     not yet called
\*   body     session = self.session() done, the with-block is about to run
\*   commit   the with-block has returned, session.commit() is next
\*   except   the with-block or the commit has raised
\*   finally  committed or rolled back, session.close() is next
\*   done     closed; the method returns or raises
\*   left     the method has returned or raised
InUnitOfWork(p) == sess[p].pc \in {"body", "commit", "except", "finally", "done"}

\* session: Session = self.session()
OpenSession(p) ==
    /\ sess[p].pc = "idle"
    /\ \A q \in Sessions : ~InUnitOfWork(q)
    /\ \E r \in Requests, fault \in Faults :
         /\ KeysLeft(r.op)
         /\ sess' = [sess EXCEPT ![p] =
                       [pc |-> "body", op |-> r.op, args |-> r.args, fault |-> fault,
                        pre |-> Store, work |-> Store, exc |-> NoExc, at |-> "none",
                        opened |-> 1, committed |-> FALSE, rolled_back |-> FALSE,
                        closed |-> FALSE, raised |-> NoExc]]
    /\ UNCHANGED <<users, accounts, transactions, seq, last>>

\* yield session: the with-block runs.
RunBody(p) ==
    LET s == sess[p]
        body == WithBlock(s.op, s.args, s.fault)
    IN  /\ s.pc = "body"
        /\ IF body.exc = NoExc \/ FlushedByCommit(s.op, body.exc)
           THEN sess' = [sess EXCEPT ![p].pc = "commit", ![p].work = body.store,
                                     ![p].exc = body.exc]
           ELSE sess' = [sess EXCEPT ![p].pc = "except", ![p].work = body.store,
                                     ![p].exc = body.exc, ![p].at = "body"]
        /\ UNCHANGED <<users, accounts, transactions, seq, last>>

\* session.commit(): it raises what the flush inside it raises, or fails
\* itself; otherwise the work of the session becomes the committed store.
CommitSession(p) ==
    LET s == sess[p]
        failure == IF s.exc # NoExc THEN s.exc
                   ELSE IF s.fault = "commit" THEN OperationalError ELSE NoExc
    IN  /\ s.pc = "commit"
        /\ IF failure # NoExc
           THEN /\ sess' = [sess EXCEPT ![p].pc = "except", ![p].exc = failure,
                                        ![p].at = "commit"]
                /\ UNCHANGED <<users, accounts, transactions, seq>>
           ELSE /\ sess' = [sess EXCEPT ![p].pc = "finally", ![p].committed = TRUE]
                /\ users' = s.work.users
                /\ accounts' = s.work.accounts
                /\ transactions' = s.work.transactions
                /\ seq' = [users |-> seq.users
                                     + NewKeys(UserKeys(s.work), UserKeys(Store)),
                           accounts |-> seq.accounts
                                     + NewKeys(AccountKeys(s.work), AccountKeys(Store)),
                           transactions |-> seq.transactions
                                     + NewKeys(TransactionKeys(s.work),
                                               TransactionKeys(Store))]
        /\ UNCHANGED last

\* except ...: session.rollback(); raise
RollbackSession(p) ==
    LET s == sess[p]
        clause == ExceptClause(s.exc)
    IN  /\ s.pc = "except"
        /\ sess' = [sess EXCEPT ![p].pc = "finally",
                                ![p].rolled_back = clause.rollback,
                                ![p].raised = clause.raised]
        /\ UNCHANGED <<users, accounts, transactions, seq, last>>

\* finally: session.close()
CloseSession(p) ==
    /\ sess[p].pc = "finally"
    /\ sess' = [sess EXCEPT ![p].pc = "done", ![p].closed = TRUE]
    /\ UNCHANGED <<users, accounts, transactions, seq, last>>

\* The method returns, or raises, to its caller.
LeaveSession(p) ==
    /\ sess[p].pc = "done"
    /\ sess' = [sess EXCEPT ![p] = [pc |-> "left"]]
    /\ UNCHANGED <<users, accounts, transactions, seq, last>>

UowNext ==
    \E p \in Sessions :
        \/ OpenSession(p) /\ UNCHANGED <<calls, adapter>>
        \/ RunBody(p) /\ UNCHANGED <<calls, adapter>>
        \/ CommitSession(p) /\ UNCHANGED <<calls, adapter>>
        \/ RollbackSession(p) /\ UNCHANGED <<calls, adapter>>
        \/ CloseSession(p) /\ UNCHANGED <<calls, adapter>>
        \/ LeaveSession(p) /\ UNCHANGED <<calls, adapter>>

UowSpec == LedgerInit /\ [][UowNext]_vars

\* ---------------------------------------------------------------- tokens
\* os.getenv("SECRET_KEY"), and a key of somebody else.
SECRET_KEY == "SECRET_KEY"
Keys == {SECRET_KEY, "another key"}

\* timegm(d.utctimetuple()): a time in whole seconds.
Seconds(ticks) == ticks \div TicksPerSecond

\* A signed token: its claims and the key of its signature. The claim sub is
\* a set, empty when the payload has none.
Jwt(sub, exp, key) == [kind |-> "jwt", sub |-> sub, exp |-> exp, key |-> key]
\* Credentials that are no token, and a request without credentials.
Garbage == [kind |-> "garbage", sub |-> {}, exp |-> 0, key |-> ""]
NoCredentials == [kind |-> "missing", sub |-> {}, exp |-> 0, key |-> ""]

\* jwt.encode(to_encode, key, algorithm=ALGORITHM): the datetime under exp is
\* written in whole seconds.
Encode(claims, key) == Jwt(claims.sub, Seconds(claims.exp), key)

\* create_access_token(data, expires_minutes), called at the time `now`.
CreateAccessToken(data, expires, now) ==
    Encode([sub |-> data.sub, exp |-> now + expires * TicksPerSecond], SECRET_KEY)

JWTError == Exc("JWTError", 0)

\* A decoder that does not look at the expiry.
DecodeIgnoresExpiry(token, key, now) ==
    IF token.kind # "jwt" \/ token.key # key
    THEN [exc |-> JWTError, sub |-> {}]
    ELSE [exc |-> NoExc, sub |-> token.sub]

\* jwt.decode(token, key, algorithms=[ALGORITHM]) at the time `now`: the
\* signature is checked, then exp against the time in whole seconds.
Decode(token, key, now) ==
    IF token.kind # "jwt" \/ token.key # key \/ token.exp < Seconds(now)
    THEN [exc |-> JWTError, sub |-> {}]
    ELSE [exc |-> NoExc, sub |-> token.sub]

\* A gate that reads the payload without decoding the token with the key.
GetCurrentUserUnverified(token, now) ==
    IF token.kind # "jwt" \/ token.sub = {}
    THEN [status |-> 401, email |-> {}]
    ELSE [status |-> 200, email |-> token.sub]

\* Depends(security) and get_current_user: HTTPBearer turns away a request
\* without credentials, get_current_user one whose token does not decode or
\* has no sub.
GetCurrentUser(token, now) ==
    IF token.kind = "missing" THEN [status |-> 401, email |-> {}]
    ELSE IF Decode(token, SECRET_KEY, now).exc # NoExc
    THEN [status |-> 401, email |-> {}]
    ELSE IF Decode(token, SECRET_KEY, now).sub = {}
    THEN [status |-> 401, email |-> {}]
    ELSE [status |-> 200, email |-> Decode(token, SECRET_KEY, now).sub]

\* ---------------------------------------------------------------- authenticate
\* pwd_context.verify(password, user.password)
PasswordVerifies(password, hashed) == hashed = Hash(password)

\* An authenticate that tells an unknown email from a wrong password.
AuthenticateBodyNamesCause(st, email, password) ==
    IF UserByEmail(st, email) = {}
    THEN Raise(st, Exc("NotFoundError", 0))
    ELSE IF \E u \in UserByEmail(st, email) : ~PasswordVerifies(password, u.password)
    THEN Raise(st, Exc("AuthenticationException", 0))
    ELSE Return(st)

\* Both raise statements carry the message "Wrong email or password!".
AuthenticateBody(st, email, password) ==
    IF UserByEmail(st, email) = {}
    THEN Raise(st, Exc("AuthenticationException", 0))
    ELSE IF \E u \in UserByEmail(st, email) : ~PasswordVerifies(password, u.password)
    THEN Raise(st, Exc("AuthenticationException", 0))
    ELSE Return(st)

\* get_users, get_accounts: session.query(...).all()
QueryAllBody(st, fault) ==
    IF fault = "flush" THEN Raise(st, OperationalError) ELSE Return(st)

\* ---------------------------------------------------------------- endpoints
\* Credentials a request may carry: none, no token, and tokens with or
\* without a subject, expired or not, signed with either key.
TokenInputs ==
    {NoCredentials, Garbage}
    \cup {Jwt(sub, exp, key) :
            sub \in {{}, {Registered(1).email}},
            exp \in {0, Seconds(clock) + Lifetime},
            key \in Keys}

\* Passwords a client may send to login.
PasswordInputs == Passwords \cup {"AAa123456!?"}

\* The except clauses of the endpoint functions; an exception none of them
\* names, or raised where there is no try, is answered 500.
Status(endpoint, exc) ==
    IF exc = NoExc THEN 200
    ELSE IF /\ exc.kind = "NotFoundError"
            /\ endpoint \in {"delete_user", "create_transaction", "delete_account",
                             "update_account"}
    THEN 404
    ELSE IF /\ exc.kind \in {"ErrorConversionType", "AmountTooSmallError"}
            /\ endpoint \in {"create_transaction", "update_account"}
    THEN 400
    ELSE IF exc.kind = "AuthenticationException" /\ endpoint = "login"
    THEN 401
    ELSE 500

\* The response: what the client sent and what it gets, and the store the
\* request found.
Answer(endpoint, token, status, user, body) ==
    http' = [endpoint |-> endpoint, token |-> token, status |-> status,
             user |-> user, body |-> body, pre |-> Store]

\* A request turned away before the endpoint function runs: by the
\* dependency get_current_user (401) or by the request schema (422).
Refused(endpoint, token, status) ==
    /\ Answer(endpoint, token, status, {}, NoCredentials)
    /\ UNCHANGED <<users, accounts, transactions, seq, last>>

Denied(endpoint, token) ==
    /\ GetCurrentUser(token, clock).status # 200
    /\ Refused(endpoint, token, GetCurrentUser(token, clock).status)

Admitted(token) == GetCurrentUser(token, clock).status = 200

\* The endpoint function runs: it calls the handler and answers with the
\* status of the outcome.
Served(endpoint, token, args, fault, body) ==
    /\ Complete(endpoint, args, fault, GetSession(Store, body, fault = "commit"))
    /\ Answer(endpoint, token, Status(endpoint, last'.raised),
              GetCurrentUser(token, clock).email, NoCredentials)

\* @api.get("/users")
ListUsers(token) ==
    /\ http = NoRequest
    /\ \/ Denied("list_users", token)
       \/ /\ Admitted(token)
          /\ \E fault \in Faults :
               Served("list_users", token, <<>>, fault, QueryAllBody(Store, fault))

\* @api.delete("/user/{user_id}")
DeleteUserEndpoint ==
    /\ http = NoRequest
    /\ \E token \in TokenInputs :
         \/ Denied("delete_user", token)
         \/ /\ Admitted(token)
            /\ \E user_id \in UserIdInputs, fault \in Faults :
                 Served("delete_user", token, <<user_id>>, fault,
                        DeleteUserBody(Store, user_id, fault))

\* @api.post("/register")
Register ==
    /\ http = NoRequest
    /\ seq.users < MaxUsers
    /\ seq.accounts < MaxAccounts
    /\ \E email \in Emails, password \in Passwords, number \in AccountNumbers,
          fault \in Faults :
         /\ Complete("create_user", <<email, password, number>>, fault,
                     GetSession(Store,
                                CreateUserBody(Store, email, password, number, fault),
                                fault = "commit"))
         /\ Answer("register", NoCredentials, Status("register", last'.raised),
                   {}, NoCredentials)

\* @api.put("/user")
UpdateUserEndpoint ==
    /\ http = NoRequest
    /\ \E token \in TokenInputs :
         \/ Denied("update_user", token)
         \/ /\ Admitted(token)
            /\ \E user_id \in UserIdInputs, new_email \in Emails, fault \in Faults :
                 Served("update_user", token, <<user_id, new_email>>, fault,
                        UpdateUserBody(Store, user_id, new_email, fault))

\* @api.post("/account")
CreateAccountEndpoint ==
    /\ http = NoRequest
    /\ seq.accounts < MaxAccounts
    /\ \E token \in TokenInputs :
         \/ Denied("create_account", token)
         \/ /\ Admitted(token)
            /\ \E user_id \in UserIdInputs, number \in AccountNumbers,
                  fault \in Faults :
                 Served("create_account", token, <<user_id, number>>, fault,
                        CreateAccountBody(Store, user_id, number, fault))

\* CreateTransaction: amount: float = Field(..., gt=0) and validate_accounts
ValidTransaction(from, to, amount) == amount > 0 /\ from # to

\* @api.post("/transaction")
CreateTransactionEndpoint ==
    /\ http = NoRequest
    /\ seq.transactions < MaxTx
    /\ \E token \in TokenInputs :
         \/ Denied("create_transaction", token)
         \/ /\ Admitted(token)
            /\ \E from \in AccountIdInputs, to \in AccountIdInputs,
                  amount \in AmountInputs :
                 IF ~ValidTransaction(from, to, amount)
                 THEN Refused("create_transaction", token, 422)
                 ELSE \E fault \in Faults :
                        Served("create_transaction", token, <<from, to, amount>>,
                               fault,
                               CreateTransactionBody(Store, from, to, amount, fault))

\* @api.get("/accounts")
ListAccounts ==
    /\ http = NoRequest
    /\ \E token \in TokenInputs :
         \/ Denied("list_accounts", token)
         \/ /\ Admitted(token)
            /\ \E fault \in Faults :
                 Served("list_accounts", token, <<>>, fault,
                        QueryAllBody(Store, fault))

\* @api.delete("/account/{number}")
DeleteAccountEndpoint ==
    /\ http = NoRequest
    /\ \E token \in TokenInputs :
         \/ Denied("delete_account", token)
         \/ /\ Admitted(token)
            /\ \E number \in AccountNumberInputs, fault \in Faults :
                 Served("delete_account", token, <<number>>, fault,
                        DeleteAccountBody(Store, number, fault))

\* UpdateAccount.validate_amount
ValidAmount(value) == ~(value <= 0)

\* @api.put("/account")
UpdateAccountEndpoint ==
    /\ http = NoRequest
    /\ \E token \in TokenInputs :
         \/ Denied("update_account", token)
         \/ /\ Admitted(token)
            /\ \E number \in AccountNumberInputs, new_amount \in AmountInputs :
                 IF ~ValidAmount(new_amount)
                 THEN Refused("update_account", token, 422)
                 ELSE \E fault \in Faults :
                        Served("update_account", token, <<number, new_amount>>, fault,
                               UpdateAccountBody(Store, number, new_amount, fault))

\* @api.post("/login"): authenticate, then create_access_token for the
\* email of the user, with expires_minutes=15.
Login ==
    /\ http = NoRequest
    /\ \E email \in Emails, password \in PasswordInputs, fault \in Faults :
         /\ Complete("authenticate", <<email, password>>, fault,
                     GetSession(Store, AuthenticateBody(Store, email, password),
                                fault = "commit"))
         /\ Answer("login", NoCredentials, Status("login", last'.raised), {},
                   IF last'.raised = NoExc
                   THEN CreateAccessToken([sub |-> {email}], Lifetime, clock)
                   ELSE NoCredentials)

\* @api.get("/health")
Health ==
    /\ http = NoRequest
    /\ Answer("health", NoCredentials, 200, {}, NoCredentials)
    /\ UNCHANGED <<users, accounts, transactions, seq, last>>

\* The response leaves: the adapter is ready for the next request.
Reply ==
    /\ http # NoRequest
    /\ http' = NoRequest
    /\ last' = NoCall
    /\ UNCHANGED <<users, accounts, transactions, seq, sess, calls, clock>>

\* The requests arrive one second after the time tokens count from, so that
\* a token can have expired.
ApiInit == Opened /\ clock = TicksPerSecond

ApiNext ==
    \/ (\E token \in TokenInputs : ListUsers(token)) /\ Counted /\ UNCHANGED <<sess, clock>>
    \/ DeleteUserEndpoint /\ Counted /\ UNCHANGED <<sess, clock>>
    \/ Register /\ Counted /\ UNCHANGED <<sess, clock>>
    \/ UpdateUserEndpoint /\ Counted /\ UNCHANGED <<sess, clock>>
    \/ CreateAccountEndpoint /\ Counted /\ UNCHANGED <<sess, clock>>
    \/ CreateTransactionEndpoint /\ Counted /\ UNCHANGED <<sess, clock>>
    \/ ListAccounts /\ Counted /\ UNCHANGED <<sess, clock>>
    \/ DeleteAccountEndpoint /\ Counted /\ UNCHANGED <<sess, clock>>
    \/ UpdateAccountEndpoint /\ Counted /\ UNCHANGED <<sess, clock>>
    \/ Login /\ Counted /\ UNCHANGED <<sess, clock>>
    \/ Health /\ Counted /\ UNCHANGED <<sess, clock>>
    \/ Reply

ApiSpec == ApiInit /\ [][ApiNext]_vars

\* ---------------------------------------------------------------- clients
\* A client logs in and afterwards presents the token it was given, at any
\* later time; it may also present the same claims signed with another key.
\* The clock stops some seconds after the last token can have expired.
ClockEnd == (Lifetime + 2) * TicksPerSecond

ClientLogin(p) ==
    /\ sess[p].pc = "idle"
    /\ Login
    /\ sess' = IF http'.status = 200
               THEN [sess EXCEPT ![p] = [pc |-> "logged_in", token |-> http'.body,
                                         sub |-> last'.args[1], at |-> clock]]
               ELSE sess
    /\ UNCHANGED <<calls, clock>>

ClientCall(p) ==
    /\ sess[p].pc = "logged_in"
    /\ ListUsers(sess[p].token)
    /\ UNCHANGED <<sess, calls, clock>>

ForgedCall(p) ==
    /\ sess[p].pc = "logged_in"
    /\ ListUsers(Jwt(sess[p].token.sub, sess[p].token.exp, "another key"))
    /\ UNCHANGED <<sess, calls, clock>>

Tick ==
    /\ http = NoRequest
    /\ clock < ClockEnd
    /\ clock' = clock + 1
    /\ UNCHANGED <<users, accounts, transactions, seq, last, sess, calls, http>>

TokenInit == Opened /\ clock = 0

TokenNext ==
    \/ \E p \in Sessions : ClientLogin(p)
    \/ \E p \in Sessions : ClientCall(p)
    \/ \E p \in Sessions : ForgedCall(p)
    \/ Tick
    \/ Reply

TokenSpec == TokenInit /\ [][TokenNext]_vars

\* ================================================================ properties
\* The call that has just completed, as the client sees it.
Called(op) == last.op = op
Succeeded == last.raised = NoExc
Failed(kind) == last.raised.kind = kind
StoreUnchanged == Store = last.pre
Present(aid) == aid \in AccountKeys(last.pre)
BalanceBefore(aid) == AmountOf(last.pre.accounts, aid)
BalanceAfter(aid) == AmountOf(accounts, aid)
\* create_transaction(account_from_id, account_to_id, amount)
FromArg == last.args[1]
ToArg == last.args[2]
AmountArg == last.args[3]

\* ---------------------------------------------------------------- TransferSpec
\* C1: a create_transaction(from, to, amount) that succeeds with from # to
\* leaves the source balance lower by amount and the destination balance higher
\* by amount, changes no other account row and no user, and adds exactly one
\* transaction row, which carries (from, to, amount).
C1_Conservation ==
    (Called("create_transaction") /\ Succeeded /\ FromArg # ToArg) =>
        /\ BalanceAfter(FromArg) = BalanceBefore(FromArg) - AmountArg
        /\ BalanceAfter(ToArg) = BalanceBefore(ToArg) + AmountArg
        /\ AccountKeys(Store) = AccountKeys(last.pre)
        /\ \A a \in last.pre.accounts :
             a.account_id \notin {FromArg, ToArg} => a \in accounts
        /\ \A a \in accounts : \E b \in last.pre.accounts :
             [a EXCEPT !.amount = 0] = [b EXCEPT !.amount = 0]
        /\ users = last.pre.users
        /\ last.pre.transactions \subseteq transactions
        /\ Cardinality(transactions \ last.pre.transactions) = 1
        /\ \A t \in transactions \ last.pre.transactions :
             /\ t.account_id_from = FromArg
             /\ t.account_id_to = ToArg
             /\ t.amount = AmountArg

\* A transfer between two different accounts has succeeded while a third
\* account held money.
C1_Witness ==
    /\ Called("create_transaction") /\ Succeeded /\ FromArg # ToArg
    /\ \E a \in accounts : a.account_id \notin {FromArg, ToArg} /\ a.amount > 0

\* C4: a create_transaction that fails after the balances were adjusted (the
\* INSERT of the transaction row, the flush or the commit is rejected) leaves
\* the committed store as it was before the call: no balance changes and no
\* transaction row is added.
C4_AtomicityUnderFailure ==
    (Called("create_transaction") /\ (Failed("DuplictedError") \/ Failed("OperationalError")))
        => StoreUnchanged

\* The commit of a transfer the source could pay has been rejected.
C4_Witness ==
    /\ Called("create_transaction") /\ Failed("OperationalError")
    /\ last.fault = "commit"
    /\ FromArg # ToArg /\ AmountArg > 0
    /\ StoreUnchanged

\* C5: create_transaction on two existing accounts whose source holds less
\* than amount fails with AmountTooSmallError and leaves the store unchanged.
C5_InsufficientFunds ==
    (/\ Called("create_transaction")
     /\ Present(FromArg) /\ Present(ToArg)
     /\ BalanceBefore(FromArg) < AmountArg)
        => (Failed("AmountTooSmallError") /\ StoreUnchanged)

\* A transfer of more than the source holds has been refused.
C5_Witness ==
    /\ Called("create_transaction")
    /\ Present(FromArg) /\ Present(ToArg) /\ FromArg # ToArg
    /\ BalanceBefore(FromArg) < AmountArg
    /\ Failed("AmountTooSmallError")

\* C6: create_transaction(A, A, amount) on an existing account A, with an
\* amount A can pay, fails with ErrorConversionType, changes no balance and
\* records no transaction row.
C6_SelfTransferRejected ==
    (/\ Called("create_transaction")
     /\ FromArg = ToArg /\ Present(FromArg)
     /\ AmountArg > 0 /\ BalanceBefore(FromArg) >= AmountArg
     /\ last.fault = "none")
        => (Failed("ErrorConversionType") /\ StoreUnchanged)

\* C7: create_transaction on two existing accounts with amount <= 0 fails with
\* AmountTooSmallError and leaves the store unchanged.
C7_NonPositiveAmountRejected ==
    (/\ Called("create_transaction")
     /\ Present(FromArg) /\ Present(ToArg)
     /\ AmountArg <= 0)
        => (Failed("AmountTooSmallError") /\ StoreUnchanged)

\* C8: create_transaction naming a source or a destination that does not
\* exist fails with NotFoundError carrying the identifier of an account that
\* is missing, and leaves the store unchanged.
C8_MissingAccount ==
    (Called("create_transaction") /\ ~(Present(FromArg) /\ Present(ToArg))) =>
        /\ Failed("NotFoundError")
        /\ last.raised.id \in {FromArg, ToArg}
        /\ ~Present(last.raised.id)
        /\ StoreUnchanged

\* A transfer from an existing account to a missing one has been refused.
C8_Witness ==
    /\ Called("create_transaction")
    /\ Present(FromArg) /\ ~Present(ToArg)
    /\ last.raised = Exc("NotFoundError", ToArg)

\* ---------------------------------------------------------------- ConcSpec
Done(p) == sess[p].pc = "done"
Committed(p) == Done(p) /\ sess[p].raised = NoExc
\* The source balance session p read.
SourceRead(p) == AmountOf(sess[p].loaded, sess[p].from)
\* p and q ran at the same time: one of them committed while the other had
\* already read its source account and had not yet ended.
Concurrent(p, q) == sess[p].overlapped \/ sess[q].overlapped

\* C2: starting from a store whose balances are all >= 0, every committed
\* state reached by create_transaction calls, run one after the other or
\* interleaved, has all balances >= 0.
C2_NoNegativeBalances == \A a \in accounts : a.amount >= 0

\* Two overlapping calls on the same source have ended: one committed its
\* transfer, the other asked for a negative amount and was rolled back.
C2_Witness ==
    \E p, q \in Sessions :
        /\ p # q /\ Committed(p) /\ Done(q)
        /\ Concurrent(p, q)
        /\ sess[p].from = sess[q].from /\ sess[p].from # sess[p].to
        /\ sess[q].amount < 0 /\ sess[q].raised.kind = "DuplictedError"

\* C3: two concurrent create_transaction calls that debit the same source do
\* not both succeed when the source balance is smaller than the sum of their
\* amounts.
C3_NoDoubleSpend ==
    \A p, q \in Sessions :
        (/\ p # q /\ Committed(p) /\ Committed(q)
         /\ Concurrent(p, q)
         /\ sess[p].from = sess[q].from
         /\ sess[p].from # sess[p].to /\ sess[q].from # sess[q].to)
            => SourceRead(p) >= sess[p].amount + sess[q].amount

\* ---------------------------------------------------------------- Spec
\* create_user(email, password), with the account number it generated
EmailArg == last.args[1]
NumberArg == last.args[3]
EmailUsed == \E u \in last.pre.users : u.email = EmailArg
NumberUsed == \E a \in last.pre.accounts : a.account_number = NumberArg

\* C9: a create_user call that succeeds adds exactly one user, with the email
\* given, and exactly one account, of balance zero and owned by that user, and
\* changes nothing else; a create_user call that fails leaves the store
\* unchanged, so it adds neither a user nor an account.
C9_CreateUserAllOrNothing ==
    Called("create_user") =>
        IF Succeeded
        THEN /\ transactions = last.pre.transactions
             /\ \E u \in users \ last.pre.users :
                  /\ users = last.pre.users \cup {u}
                  /\ u.email = EmailArg
                  /\ u.user_id \notin UserKeys(last.pre)
                  /\ \E a \in accounts \ last.pre.accounts :
                       /\ accounts = last.pre.accounts \cup {a}
                       /\ a.account_id \notin AccountKeys(last.pre)
                       /\ a.amount = 0
                       /\ a.user_id = u.user_id
        ELSE StoreUnchanged

\* A create_user call with an unused email has failed at the second insert,
\* on an account number already taken.
C9_Witness ==
    /\ Called("create_user")
    /\ ~EmailUsed /\ NumberUsed
    /\ Failed("DuplictedError")
    /\ StoreUnchanged

\* C10: a create_user call with an email no user has succeeds (when the
\* generated account number is free and the store does not fail); a
\* create_user call with an email some user has fails with DuplictedError and
\* leaves the store unchanged; either way exactly one user has that email
\* afterwards.
C10_DuplicateEmail ==
    Called("create_user") =>
        /\ (~EmailUsed /\ ~NumberUsed /\ last.fault = "none") => Succeeded
        /\ EmailUsed => (last.raised = Exc("DuplictedError", 0) /\ StoreUnchanged)
        /\ (Succeeded \/ EmailUsed)
             => Cardinality({u \in users : u.email = EmailArg}) = 1

\* A second create_user call with the email of an existing user has been
\* refused.
C10_Witness ==
    /\ Called("create_user")
    /\ EmailUsed
    /\ Failed("DuplictedError")
    /\ Cardinality({u \in users : u.email = EmailArg}) = 1
    /\ Cardinality(accounts) = 1

\* ---------------------------------------------------------------- LedgerSpec
\* update_user(user_id, new_email)
UserIdArg == last.args[1]
NewEmailArg == last.args[2]
UserBefore == {u \in last.pre.users : u.user_id = UserIdArg}
EmailOfAnother ==
    \E u \in last.pre.users : u.email = NewEmailArg /\ u.user_id # UserIdArg
OwnEmail == \E u \in UserBefore : u.email = NewEmailArg

\* C12: update_user(user_id, new_email) fails with NotFoundError when no user
\* has user_id; fails with DuplictedError and leaves the store unchanged when
\* another user has new_email; succeeds and leaves the store unchanged when
\* new_email is the user's own email; otherwise (when the store does not fail)
\* it succeeds, the user has new_email afterwards and no other row has changed.
C12_UpdateUser ==
    Called("update_user") =>
        IF UserBefore = {} THEN Failed("NotFoundError") /\ StoreUnchanged
        ELSE IF EmailOfAnother THEN Failed("DuplictedError") /\ StoreUnchanged
        ELSE IF last.fault # "none" THEN StoreUnchanged
        ELSE IF OwnEmail THEN Succeeded /\ StoreUnchanged
        ELSE /\ Succeeded
             /\ accounts = last.pre.accounts
             /\ transactions = last.pre.transactions
             /\ \E u \in UserBefore :
                  users = (last.pre.users \ {u})
                          \cup {[user_id |-> u.user_id, email |-> NewEmailArg,
                                 password |-> u.password]}

\* An update_user call has been refused because another user has the email.
C12_Witness ==
    /\ Called("update_user")
    /\ UserBefore # {}
    /\ EmailOfAnother
    /\ Failed("DuplictedError")
    /\ StoreUnchanged

\* update_account(number, new_amount), delete_account(number)
AccountNumberArg == last.args[1]
NewAmountArg == last.args[2]
AccountBefore == {a \in last.pre.accounts : a.account_number = AccountNumberArg}

\* C13: an update_account(number, new_amount) call with new_amount < 0 fails
\* with AmountTooSmallError and leaves the store, and so the balance of the
\* account, unchanged.
C13_NegativeAmountRejected ==
    (Called("update_account") /\ NewAmountArg < 0) =>
        Failed("AmountTooSmallError") /\ StoreUnchanged

\* Transactions of the store before the call that have the account as source
\* or destination.
HistoryBefore ==
    {t \in last.pre.transactions :
       \E a \in AccountBefore :
          t.account_id_from = a.account_id \/ t.account_id_to = a.account_id}

\* C14: delete_account(number) on a number no account has fails with
\* NotFoundError and leaves the store unchanged; on the number of an account
\* (when the store does not fail) it succeeds, and afterwards the account and
\* every transaction that had it as source or destination are gone and every
\* other row is as before.
C14_DeleteAccountCascades ==
    (Called("delete_account") /\ last.fault = "none") =>
        IF AccountBefore = {} THEN Failed("NotFoundError") /\ StoreUnchanged
        ELSE /\ Succeeded
             /\ users = last.pre.users
             /\ accounts = last.pre.accounts \ AccountBefore
             /\ transactions = last.pre.transactions \ HistoryBefore

\* delete_user(user_id)
AccountsBefore == {a \in last.pre.accounts : a.user_id = UserIdArg}

\* C15: delete_user(user_id) fails with NotFoundError when no user has
\* user_id; it fails and leaves the store unchanged when the user owns an
\* account; when the user owns none (and the store does not fail) it succeeds
\* and removes that user and nothing else.
C15_DeleteUserRestricted ==
    Called("delete_user") =>
        IF UserBefore = {} THEN Failed("NotFoundError") /\ StoreUnchanged
        ELSE IF AccountsBefore # {} THEN ~Succeeded /\ StoreUnchanged
        ELSE IF last.fault # "none" THEN ~Succeeded /\ StoreUnchanged
        ELSE /\ Succeeded
             /\ users = last.pre.users \ UserBefore
             /\ accounts = last.pre.accounts
             /\ transactions = last.pre.transactions

\* A delete_user call for a user that owns an account has been refused, and
\* the user and the account are still there.
C15_Witness ==
    /\ Called("delete_user")
    /\ UserBefore # {} /\ AccountsBefore # {}
    /\ Failed("DuplictedError")
    /\ UserBefore \subseteq users
    /\ AccountsBefore \subseteq accounts

\* C16: in every committed store the user_id of every account is the key of a
\* user, and the source and the destination of every transaction are keys of
\* accounts.
C16_ReferentialIntegrity ==
    /\ \A a \in accounts : \E u \in users : u.user_id = a.user_id
    /\ \A t \in transactions :
         /\ \E a \in accounts : a.account_id = t.account_id_from
         /\ \E a \in accounts : a.account_id = t.account_id_to

\* A delete_account call has been made for an account that is the source or
\* the destination of a transaction.
C16_Witness ==
    /\ Called("delete_account")
    /\ AccountBefore # {}
    /\ HistoryBefore # {}

\* ---------------------------------------------------------------- EmailSpec
\* C11: in every committed store no two users have the same email.
C11_EmailUnique ==
    \A u1, u2 \in users : u1.email = u2.email => u1.user_id = u2.user_id

\* Two update_user calls for different users and the same new email have
\* both passed the pre-check; one has committed and the other one has been
\* refused at its UPDATE.
C11_Witness ==
    \E p, q \in Sessions :
        /\ sess[p].pc = "done" /\ sess[q].pc = "done"
        /\ sess[p].user_id # sess[q].user_id
        /\ sess[p].new_email = sess[q].new_email
        /\ sess[p].raised = NoExc
        /\ sess[p].writes # {}
        /\ sess[q].checked
        /\ sess[q].raised = Exc("DuplictedError", 0)
        /\ \A u \in users : u.email = sess[q].new_email => u.user_id = sess[p].user_id
        /\ \E u \in users : u.user_id = sess[q].user_id

\* ---------------------------------------------------------------- UowSpec
\* C17: a call of the handler creates one session; when the call is about to
\* return or raise, the session is closed, it has been committed exactly when
\* neither the with-block nor the commit raised, and rolled back exactly when
\* one of them raised; the committed store is then the work of the session,
\* respectively the store before the call. Nothing is committed or rolled
\* back twice or both, and the session is closed only after that.
C17_UnitOfWork ==
    \A p \in Sessions :
        InUnitOfWork(p) =>
            LET s == sess[p]
            IN  /\ s.opened = 1
                /\ ~(s.committed /\ s.rolled_back)
                /\ (s.committed \/ s.rolled_back \/ s.closed)
                      => s.pc \in {"finally", "done"}
                /\ s.closed <=> s.pc = "done"
                /\ s.pc \in {"finally", "done"} =>
                      /\ s.committed <=> s.at = "none"
                      /\ s.rolled_back <=> s.at \in {"body", "commit"}
                      /\ s.committed => Store = s.work
                      /\ s.rolled_back => Store = s.pre

\* The commit of a call has failed for a reason other than a constraint: the
\* session has been rolled back and closed, and the store is as before.
C17_Witness ==
    \E p \in Sessions :
        /\ sess[p].pc = "done"
        /\ sess[p].at = "commit"
        /\ sess[p].exc = OperationalError
        /\ sess[p].work # sess[p].pre
        /\ sess[p].rolled_back /\ sess[p].closed /\ ~sess[p].committed
        /\ Store = sess[p].pre

\* C18: when a call ends after the store has rejected a statement for a
\* constraint, in a flush of the with-block or in the commit, the session has
\* been rolled back, the store is as before the call and the caller gets
\* DuplictedError; when it ends with another exception that is not
\* NoResultFound, the session has been rolled back and the caller gets that
\* exception unchanged. The caller never gets IntegrityError.
C18_IntegrityErrorTranslated ==
    \A p \in Sessions :
        sess[p].pc = "done" =>
            LET s == sess[p]
            IN  /\ s.exc.kind = "IntegrityError" =>
                      /\ s.raised = Exc("DuplictedError", 0)
                      /\ s.rolled_back
                      /\ Store = s.pre
                /\ s.exc.kind \notin {"none", "IntegrityError", "NoResultFound"} =>
                      /\ s.raised = s.exc
                      /\ s.rolled_back
                      /\ Store = s.pre
                /\ s.raised.kind # "IntegrityError"

\* A commit has been rejected for a constraint (a delete that detaches rows
\* whose reference is not nullable) and the caller has got DuplictedError.
C18_Witness ==
    \E p \in Sessions :
        /\ sess[p].pc = "done"
        /\ sess[p].at = "commit"
        /\ sess[p].exc = IntegrityError
        /\ sess[p].raised = Exc("DuplictedError", 0)
        /\ Store = sess[p].pre

\* The endpoints declared with Depends(get_current_user).
Authenticated ==
    {"list_users", "delete_user", "update_user", "create_account",
     "create_transaction", "list_accounts", "delete_account", "update_account"}

\* The token of the request is a token, signed with the key of the
\* application, not expired and with a subject.
VerifiedToken ==
    /\ http.token.kind = "jwt"
    /\ http.token.key = SECRET_KEY
    /\ http.token.exp >= Seconds(clock)
    /\ http.token.sub # {}

\* C19: on every endpoint except register, login and health, a request whose
\* token is missing, malformed, wrongly signed, expired or without subject is
\* answered 401, calls no operation of the ledger and leaves the store as it
\* was; the ledger is called only for a request whose token has been verified.
C19_AuthenticationGate ==
    http.endpoint \in Authenticated =>
        /\ ~VerifiedToken =>
               /\ http.status = 401
               /\ last = NoCall
               /\ Store = http.pre
        /\ last # NoCall => VerifiedToken

\* A request to delete an existing account with a live token for a subject,
\* signed with another key, has been answered 401 with nothing called.
C19_Witness ==
    /\ http.endpoint = "delete_account"
    /\ http.token = Jwt({Registered(1).email}, Seconds(clock) + Lifetime,
                        "another key")
    /\ http.status = 401
    /\ last = NoCall
    /\ accounts # {}
    /\ Store = http.pre

\* The time at which the token of client p expires: its ttl after its issue.
Expiry(p) == sess[p].at + Lifetime * TicksPerSecond

\* Client p has presented the token it was issued, and has the answer.
Presented(p) ==
    /\ sess[p].pc = "logged_in"
    /\ http.endpoint = "list_users"
    /\ http.token = sess[p].token

\* The answer says the token verified to the subject it was issued for.
VerifiedTo(p) == http.status # 401 /\ http.user = {sess[p].sub}

\* The answer says the token did not verify.
InvalidToken == http.status = 401 /\ http.user = {} /\ last = NoCall

\* C20 as stated: a token issued for a subject verifies to it at every time
\* before its expiry and fails to verify at every time after its expiry; a
\* token signed with another secret never verifies.
C20_TokenExpiry ==
    /\ \A p \in Sessions :
         Presented(p) =>
             /\ clock < Expiry(p) => VerifiedTo(p)
             /\ clock > Expiry(p) => InvalidToken
    /\ (http.endpoint = "list_users" /\ http.token.key # SECRET_KEY) => InvalidToken

\* C20 amended: a token issued for a subject verifies to it at every time up
\* to the end of the whole second in which it expires, which covers every
\* time before its expiry, and fails to verify at every time from the next
\* whole second on; a token signed with another secret never verifies.
C20_TokenExpiryToTheSecond ==
    /\ \A p \in Sessions :
         Presented(p) =>
             /\ Seconds(clock) <= Seconds(Expiry(p)) => VerifiedTo(p)
             /\ Seconds(clock) > Seconds(Expiry(p)) => InvalidToken
             /\ clock < Expiry(p) => VerifiedTo(p)
    /\ (http.endpoint = "list_users" /\ http.token.key # SECRET_KEY) => InvalidToken

\* A client has presented its token after the second of its expiry and has
\* been turned away.
C20_Witness ==
    \E p \in Sessions :
        /\ Presented(p)
        /\ Seconds(clock) > Seconds(Expiry(p))
        /\ InvalidToken

\* The users that had the email passed to authenticate, and whether the
\* password passed is the one the stored hash was made from.
KnownEmail == {u \in last.pre.users : u.email = last.args[1]}
PasswordMatches == \E u \in KnownEmail : u.password = Hash(last.args[2])

\* C21: authenticate returns only when a user with the email exists and the
\* password matches the stored hash; an unknown email and a wrong password
\* fail with one and the same AuthenticationException, answered by login with
\* one and the same 401 without a token; the store is never changed.
C21_Authenticate ==
    Called("authenticate") =>
        /\ StoreUnchanged
        /\ Succeeded => PasswordMatches
        /\ PasswordMatches => (Succeeded \/ last.raised = OperationalError)
        /\ ~PasswordMatches =>
               /\ last.raised = Exc("AuthenticationException", 0)
               /\ http.endpoint = "login" =>
                      (http.status = 401 /\ http.body = NoCredentials)

\* A wrong password for the email of an existing user has been refused.
C21_Witness ==
    /\ Called("authenticate")
    /\ KnownEmail # {}
    /\ ~PasswordMatches
    /\ Failed("AuthenticationException")
    /\ http.status = 401
    /\ users # {}
    /\ StoreUnchanged

\* The error kinds the adapter is to classify.
Classified ==
    {"NotFoundError", "DuplictedError", "AmountTooSmallError",
     "ErrorConversionType", "AuthenticationException"}

\* C22: on every endpoint a NotFoundError of the ledger is answered 404, a
\* DuplictedError, AmountTooSmallError or ErrorConversionType 400, an
\* AuthenticationException 401, and 500 answers only a failure of none of
\* these kinds.
C22_ErrorStatusMapping ==
    (http # NoRequest /\ last # NoCall) =>
        /\ Failed("NotFoundError") => http.status = 404
        /\ last.raised.kind \in {"DuplictedError", "AmountTooSmallError",
                                 "ErrorConversionType"} => http.status = 400
        /\ Failed("AuthenticationException") => http.status = 401
        /\ http.status = 500 => last.raised.kind \notin Classified

\* C23: every committed transaction row has amount > 0, whatever amount is
\* passed to create_transaction.
C23_TransactionAmountPositive == \A t \in transactions : t.amount > 0

\* A transfer of a non-positive amount between two existing accounts has got
\* past the funds check of the handler and has been rejected by the store.
C23_Witness ==
    /\ Called("create_transaction")
    /\ AmountArg <= 0
    /\ Present(FromArg)
    /\ Present(ToArg)
    /\ FromArg # ToArg
    /\ ~InsufficientFunds(BalanceBefore(FromArg), AmountArg)
    /\ Failed("DuplictedError")
    /\ transactions = {}
    /\ StoreUnchanged

\* C24: update_account(number, new_amount) on an existing account sets the
\* balance of that account to new_amount and leaves every other account,
\* every user and every transaction as it was; on a number no account has it
\* fails with NotFoundError and changes nothing.
C24_UpdateAccountFrame ==
    Called("update_account") =>
        /\ AccountBefore = {} => (Failed("NotFoundError") /\ StoreUnchanged)
        /\ AccountBefore # {} => (Succeeded \/ Failed("OperationalError"))
        /\ ~Succeeded => StoreUnchanged
        /\ Succeeded =>
               /\ users = last.pre.users
               /\ transactions = last.pre.transactions
               /\ Cardinality(accounts) = Cardinality(last.pre.accounts)
               /\ \A a \in last.pre.accounts :
                      IF a.account_number = AccountNumberArg
                      THEN \E b \in accounts :
                               /\ b.account_id = a.account_id
                               /\ b.account_number = a.account_number
                               /\ b.user_id = a.user_id
                               /\ b.amount = NewAmountArg
                      ELSE a \in accounts

\* The balance of one of several accounts has been overwritten with another
\* value.
C24_Witness ==
    /\ Called("update_account")
    /\ Succeeded
    /\ Cardinality(last.pre.accounts) > 1
    /\ \E a \in AccountBefore : a.amount # NewAmountArg
    /\ \E b \in accounts :
           b.account_number = AccountNumberArg /\ b.amount = NewAmountArg
    /\ \E b \in accounts : b.account_number # AccountNumberArg /\ b \in last.pre.accounts

\* create_account(user_id): the number generate_unique_account_number gave
\* the call, and whether an account had it already.
GeneratedNumber == last.args[2]
NumberCollides == \E b \in last.pre.accounts : b.account_number = GeneratedNumber

\* The call has added exactly one account, of balance zero, owned by the
\* user and with a number no account had, and has changed nothing else.
OneAccountAdded ==
    /\ users = last.pre.users
    /\ transactions = last.pre.transactions
    /\ \E a \in accounts \ last.pre.accounts :
         /\ accounts = last.pre.accounts \cup {a}
         /\ a.account_id \notin AccountKeys(last.pre)
         /\ a.amount = 0
         /\ a.user_id = UserIdArg
         /\ \A b \in last.pre.accounts : b.account_number # a.account_number

\* C25 as stated: create_account(user_id) fails with NotFoundError and adds
\* nothing when the user does not exist; otherwise (unless the store itself
\* fails) it adds exactly one account with balance zero, owned by that user,
\* with a number different from every existing one, and changes nothing else.
C25_CreateAccount ==
    Called("create_account") =>
        IF UserBefore = {}
        THEN Failed("NotFoundError") /\ StoreUnchanged
        ELSE \/ Failed("OperationalError") /\ StoreUnchanged
             \/ Succeeded /\ OneAccountAdded

\* C25 amended: create_account(user_id) fails with NotFoundError and adds
\* nothing when the user does not exist; otherwise, when the generated number
\* is one no account has, it adds exactly one account with balance zero, owned
\* by that user, and changes nothing else (unless the store itself fails), and
\* when the generated number is one an account has already, it fails with
\* DuplictedError and adds nothing.
C25_CreateAccountUnlessNumberTaken ==
    Called("create_account") =>
        IF UserBefore = {}
        THEN Failed("NotFoundError") /\ StoreUnchanged
        ELSE IF NumberCollides
        THEN last.raised = Exc("DuplictedError", 0) /\ StoreUnchanged
        ELSE /\ \/ Failed("OperationalError") /\ StoreUnchanged
                \/ Succeeded /\ OneAccountAdded
             /\ last.fault = "none" => Succeeded

\* An account has been added for a user beside the accounts there were.
C25_Witness ==
    /\ Called("create_account")
    /\ UserBefore # {}
    /\ last.pre.accounts # {}
    /\ ~NumberCollides
    /\ Succeeded
    /\ OneAccountAdded

\* The sum of the balances of a set of account rows.
RECURSIVE TotalMoney(_)
TotalMoney(rows) ==
    IF rows = {} THEN 0
    ELSE LET a == CHOOSE r \in rows : TRUE
         IN  a.amount + TotalMoney(rows \ {a})

\* C26: whatever the interleaving of the concurrently running
\* create_transaction calls, no step changes the sum of the committed
\* balances, so that in every committed state the sum is the one before the
\* calls started.
C26_TotalMoneyConserved ==
    [][TotalMoney(accounts') = TotalMoney(accounts)]_vars
====
